---- MODULE Spec2Model ----
(***************************************************************************)
(* VCardHelper: the vCard reader and writer of vcard/core.py and the       *)
(* escaping grammar of vcard/text.py.                                      *)
(*                                                                         *)
(* A Python str is a sequence of one-character strings; the empty str is   *)
(* <<>>.  A physical line keeps its terminator, as stream.readline()       *)
(* returns it, and end of stream is the empty str.                         *)
(***************************************************************************)
EXTENDS Integers, Sequences, FiniteSets, TLC

VARIABLES
    reader,     \* the TextReader of the current phase
    stack,      \* the VCard under construction of each active read_vcard call
    pc,         \* position of the innermost read_vcard call
    phase,      \* 1: reading the input, 2: reading back what write_vcard wrote,
                \* 0: reading a stream record after record
    result,     \* what the outermost read_vcard call of this phase did
    first,      \* the result of phase 1
    output,     \* the text write_vcard wrote
    last,       \* the last read_vcard_property call made by read_vcard
    tr,         \* TextReader exercised on its own: the calls made so far
    tx,         \* the text functions: the input and what was computed from it
    records,    \* the records the stream was made of, with their separators
    returned    \* what the read_vcard calls before the current one returned

vars == <<reader, stack, pc, phase, result, first, output, last, tr, tx,
          records, returned>>

(***************************************************************************)
(* Characters                                                              *)
(***************************************************************************)
UpperLetters ==
    <<"A","B","C","D","E","F","G","H","I","J","K","L","M","N","O","P","Q","R","S","T","U","V","W","X","Y","Z">>
LowerLetters ==
    <<"a","b","c","d","e","f","g","h","i","j","k","l","m","n","o","p","q","r","s","t","u","v","w","x","y","z">>
\* The characters of the model in code point order.
CodePoints ==
    <<"\t","\n","\r"," ",",","-",".","0","1","2","3","4","5","6","7","8","9",":",";","=","A","B","C","D","E","F","G","H","I","J","K","L","M","N","O","P","Q","R","S","T","U","V","W","X","Y","Z","\\","a","b","c","d","e","f","g","h","i","j","k","l","m","n","o","p","q","r","s","t","u","v","w","x","y","z">>

Ord(c) == CHOOSE i \in 1..Len(CodePoints) : CodePoints[i] = c

\* str.lower() and str.upper(), character by character
lower_char(c) ==
    IF \E i \in 1..26 : UpperLetters[i] = c
    THEN LowerLetters[CHOOSE i \in 1..26 : UpperLetters[i] = c]
    ELSE c
upper_char(c) ==
    IF \E i \in 1..26 : LowerLetters[i] = c
    THEN UpperLetters[CHOOSE i \in 1..26 : LowerLetters[i] = c]
    ELSE c
lower(s) == [i \in 1..Len(s) |-> lower_char(s[i])]
upper(s) == [i \in 1..Len(s) |-> upper_char(s[i])]

\* the characters of the model that str.strip() removes
Whitespace == {" ", "\t", "\n", "\r"}

RECURSIVE lstrip(_)
lstrip(s) == IF s # <<>> /\ Head(s) \in Whitespace THEN lstrip(Tail(s)) ELSE s

RECURSIVE rstrip_chars(_, _)
rstrip_chars(s, chars) ==
    IF s # <<>> /\ s[Len(s)] \in chars
    THEN rstrip_chars(SubSeq(s, 1, Len(s) - 1), chars)
    ELSE s
rstrip(s) == rstrip_chars(s, Whitespace)
strip(s) == rstrip(lstrip(s))

\* ''.join(parts)
RECURSIVE join(_)
join(parts) == IF parts = <<>> THEN <<>> ELSE Head(parts) \o join(Tail(parts))

\* string.split(sep)
RECURSIVE split(_, _)
split(s, sep) ==
    IF \E i \in 1..Len(s) : s[i] = sep
    THEN LET i == CHOOSE i \in 1..Len(s) : s[i] = sep /\ \A j \in 1..(i - 1) : s[j] # sep
         IN  <<SubSeq(s, 1, i - 1)>> \o split(SubSeq(s, i + 1, Len(s)), sep)
    ELSE <<s>>

\* string.split(sep, 1)
split1(s, sep) ==
    IF \E i \in 1..Len(s) : s[i] = sep
    THEN LET i == CHOOSE i \in 1..Len(s) : s[i] = sep /\ \A j \in 1..(i - 1) : s[j] # sep
         IN  <<SubSeq(s, 1, i - 1), SubSeq(s, i + 1, Len(s))>>
    ELSE <<s>>

\* a < b for str: lexicographic by code point
RECURSIVE str_less(_, _)
str_less(a, b) ==
    IF b = <<>> THEN FALSE
    ELSE IF a = <<>> THEN TRUE
    ELSE IF Head(a) # Head(b) THEN Ord(Head(a)) < Ord(Head(b))
    ELSE str_less(Tail(a), Tail(b))

(***************************************************************************)
(* String literals of the source                                           *)
(***************************************************************************)
S_begin ==
    <<"b","e","g","i","n">>
S_end ==
    <<"e","n","d">>
S_vcard ==
    <<"v","c","a","r","d">>
S_agent ==
    <<"a","g","e","n","t">>
S_version ==
    <<"v","e","r","s","i","o","n">>
S_type ==
    <<"t","y","p","e">>
S_encoding ==
    <<"e","n","c","o","d","i","n","g">>
S_quoted_printable ==
    <<"q","u","o","t","e","d","-","p","r","i","n","t","a","b","l","e">>
S_base64 ==
    <<"b","a","s","e","6","4">>
S_2_1 ==
    <<"2",".","1">>
fallback_version == S_2_1

(***************************************************************************)
(* TextReader                                                              *)
(***************************************************************************)
\* TextReader.__init__ over a stream holding the given physical lines.
\* _next_line is <<>> for None and <<line>> for a cached line.
TextReader(lines) ==
    [stream |-> lines, pos |-> 0, line_number |-> 0, next_line |-> <<>>]

\* self.stream.readline(): the next physical line, '' at end of stream
stream_readline(r) ==
    IF r.pos < Len(r.stream)
    THEN [line |-> r.stream[r.pos + 1], reader |-> [r EXCEPT !.pos = @ + 1]]
    ELSE [line |-> <<>>, reader |-> r]

\* readline that hands out the cached line and keeps it cached
readline_keeps_cache(r) ==
    LET got == IF r.next_line = <<>>
               THEN stream_readline(r)
               ELSE [line |-> r.next_line[1], reader |-> r]
    IN  IF got.line # <<>>
        THEN [line |-> got.line,
              reader |-> [got.reader EXCEPT !.line_number = @ + 1]]
        ELSE got

readline(r) ==
    LET got == IF r.next_line = <<>>
               THEN stream_readline(r)
               ELSE [line |-> r.next_line[1], reader |-> [r EXCEPT !.next_line = <<>>]]
    IN  IF got.line # <<>>
        THEN [line |-> got.line,
              reader |-> [got.reader EXCEPT !.line_number = @ + 1]]
        ELSE got

peekline(r) ==
    IF r.next_line = <<>>
    THEN LET got == stream_readline(r)
         IN  [line |-> got.line, reader |-> [got.reader EXCEPT !.next_line = <<got.line>>]]
    ELSE [line |-> r.next_line[1], reader |-> r]

(***************************************************************************)
(* VCardProperty, VCard                                                    *)
(***************************************************************************)
\* parameters is the dict in insertion order: a sequence of [name, values]
VCardProperty ==
    [name |-> <<>>, parameters |-> <<>>, value |-> <<>>]

add_parameter(prop, name, value) ==
    LET ps == prop.parameters
    IN  IF \E i \in 1..Len(ps) : ps[i].name = name
        THEN LET i == CHOOSE i \in 1..Len(ps) : ps[i].name = name
             IN  IF \E j \in 1..Len(ps[i].values) : ps[i].values[j] = value
                 THEN prop
                 ELSE [prop EXCEPT !.parameters[i].values = Append(@, value)]
        ELSE [prop EXCEPT !.parameters = Append(@, [name |-> name, values |-> <<value>>])]

\* prop.parameters.get(name, default)
parameters_get(prop, name, default) ==
    LET ps == prop.parameters
    IN  IF \E i \in 1..Len(ps) : ps[i].name = name
        THEN ps[CHOOSE i \in 1..Len(ps) : ps[i].name = name].values
        ELSE default

\* properties is the dict in insertion order: a sequence of [name, props]
VCard ==
    [properties |-> <<>>]

\* vcard.properties.setdefault(name, []).append(prop)
add_property(vcard, prop) ==
    LET gs == vcard.properties
    IN  IF \E i \in 1..Len(gs) : gs[i].name = prop.name
        THEN LET i == CHOOSE i \in 1..Len(gs) : gs[i].name = prop.name
             IN  [vcard EXCEPT !.properties[i].props = Append(@, prop)]
        ELSE [vcard EXCEPT !.properties = Append(@, [name |-> prop.name, props |-> <<prop>>])]

\* vcard.properties.get(name, default)
properties_get(vcard, name, default) ==
    LET gs == vcard.properties
    IN  IF \E i \in 1..Len(gs) : gs[i].name = name
        THEN gs[CHOOSE i \in 1..Len(gs) : gs[i].name = name].props
        ELSE default

(***************************************************************************)
(* parse_vcard_property                                                    *)
(***************************************************************************)
\* _index_any, 1-based; 0 stands for the ValueError of a failed search
RECURSIVE index_any(_, _, _)
index_any(string, chars, start) ==
    IF start > Len(string) THEN 0
    ELSE IF string[start] \in chars THEN start
    ELSE index_any(string, chars, start + 1)

\* the loop over filter(None, parameters_data.split(';'))
RECURSIVE parse_parameters(_, _)
parse_parameters(prop, fragments) ==
    IF fragments = <<>> THEN prop
    ELSE IF Head(fragments) = <<>> THEN parse_parameters(prop, Tail(fragments))
    ELSE LET pair == split1(Head(fragments), "=")
             parameter_name == IF Len(pair) = 2 THEN pair[1] ELSE S_type
             parameter_value == IF Len(pair) = 2 THEN pair[2] ELSE pair[1]
         IN  parse_parameters(
                 add_parameter(prop, lower(strip(parameter_name)),
                               lower(strip(parameter_value))),
                 Tail(fragments))

\* [ok |-> FALSE] stands for the ValueError that _index_any raises
parse_vcard_property(line) ==
    LET delimiter_index == index_any(line, {";", ":"}, 1)
    IN  IF delimiter_index = 0 THEN [ok |-> FALSE, prop |-> VCardProperty]
        ELSE
        LET group_and_name_data == SubSeq(line, 1, delimiter_index - 1)
            segments == split(group_and_name_data, ".")
            property_name == segments[Len(segments)]
            named == [VCardProperty EXCEPT !.name = lower(property_name)]
            colon == IF line[delimiter_index] = ";"
                     THEN index_any(line, {":"}, delimiter_index + 1)
                     ELSE delimiter_index
        IN  IF colon = 0 THEN [ok |-> FALSE, prop |-> VCardProperty]
            ELSE
            LET with_parameters ==
                    IF line[delimiter_index] = ";"
                    THEN parse_parameters(named,
                             split(SubSeq(line, delimiter_index + 1, colon - 1), ";"))
                    ELSE named
                raw == SubSeq(line, colon + 1, Len(line))
                value == IF with_parameters.name \in {S_begin, S_end}
                         THEN lower(raw) ELSE raw
            IN  [ok |-> TRUE, prop |-> [with_parameters EXCEPT !.value = value]]

(***************************************************************************)
(* The three continuation grammars.  Each returns [ok, value, reader];     *)
(* ok = FALSE stands for the ValueError the function raises.               *)
(***************************************************************************)
RECURSIVE read_vcard_v21_property_value_quoted_printable(_, _, _)
read_vcard_v21_property_value_quoted_printable(r, first_fragment, fragments) ==
    LET fragment == rstrip(first_fragment)
    IN  IF fragment # <<>> /\ fragment[Len(fragment)] = "="
        THEN LET got == readline(r)
             IN  IF got.line = <<>>
                 THEN [ok |-> FALSE, value |-> <<>>, reader |-> got.reader]
                 ELSE read_vcard_v21_property_value_quoted_printable(
                          got.reader, got.line,
                          Append(fragments, SubSeq(fragment, 1, Len(fragment) - 1)))
        ELSE [ok |-> TRUE, value |-> join(Append(fragments, fragment)), reader |-> r]

RECURSIVE read_vcard_v21_property_value_base64(_, _, _)
read_vcard_v21_property_value_base64(r, first_fragment, fragments) ==
    IF first_fragment = <<>>
    THEN [ok |-> TRUE, value |-> join(fragments), reader |-> r]
    ELSE LET got == readline(r)
         IN  IF got.line = <<>> \/ got.line[1] \notin {"\t", " "}
             THEN [ok |-> FALSE, value |-> <<>>, reader |-> got.reader]
             ELSE read_vcard_v21_property_value_base64(
                      got.reader, rstrip_chars(got.line, {"\r", "\n"}),
                      Append(fragments, strip(first_fragment)))

\* A Python value that is a str or a VCardProperty object: read_vcard hands
\* read_vcard_property either one as version (core.py line 236).
str_value(s) == [type |-> "str", str |-> s, prop |-> VCardProperty]
object_value(p) == [type |-> "VCardProperty", str |-> <<>>, prop |-> p]

\* value == '...': a VCardProperty defines no __eq__, so it equals no str
equals_str(value, s) == value.type = "str" /\ value.str = s

\* unfold_fragment with the continuation marker left in place
unfold_fragment_unstripped(fragment, version) == fragment

\* what one continuation line contributes (core.py lines 176-179)
unfold_fragment(fragment, version) ==
    IF equals_str(version, S_2_1) THEN lstrip(fragment) ELSE Tail(fragment)

RECURSIVE read_vcard_property_value_folded(_, _, _, _)
read_vcard_property_value_folded(r, first_fragment, version, fragments) ==
    LET appended == Append(fragments, first_fragment)
        peeked == peekline(r)
    IN  IF peeked.line = <<>> \/ peeked.line[1] \notin {"\t", " "}
        THEN [ok |-> TRUE, value |-> join(appended), reader |-> peeked.reader]
        ELSE LET got == readline(peeked.reader)
             IN  read_vcard_property_value_folded(
                     got.reader,
                     unfold_fragment(rstrip_chars(got.line, {"\r", "\n"}), version),
                     version, appended)

(***************************************************************************)
(* read_vcard_property: [kind, err, prop, reader] with kind "prop",        *)
(* "none" (the function returns None) or "error" (it raises err).          *)
(***************************************************************************)
Error(type, msg) == [type |-> type, msg |-> msg]
NoError == Error("", "")

\* the loop that skips blank lines: the first non-blank line, terminator
\* stripped, or '' at end of stream
RECURSIVE skip_blank_lines(_)
skip_blank_lines(r) ==
    LET got == readline(r)
        line == rstrip_chars(got.line, {"\r", "\n"})
    IN  IF got.line = <<>> THEN [line |-> <<>>, reader |-> got.reader, eof |-> TRUE]
        ELSE IF line # <<>> THEN [line |-> line, reader |-> got.reader, eof |-> FALSE]
        ELSE skip_blank_lines(got.reader)

\* prop.parameters.get('encoding', [''])[0]
encoding_of(prop) == parameters_get(prop, S_encoding, <<<<>>>>)[1]

read_vcard_property(r, version) ==
    LET start == skip_blank_lines(r)
    IN  IF start.eof
        THEN [kind |-> "none", err |-> NoError, prop |-> VCardProperty,
              reader |-> start.reader]
        ELSE
        LET parsed == parse_vcard_property(start.line)
        IN  IF ~parsed.ok
            THEN [kind |-> "error", err |-> Error("ValueError", "Invalid property data"),
                  prop |-> VCardProperty, reader |-> start.reader]
            ELSE
            LET prop == parsed.prop
                encoding == encoding_of(prop)
                read ==
                    IF encoding = S_quoted_printable
                    THEN read_vcard_v21_property_value_quoted_printable(
                             start.reader, prop.value, <<>>)
                    ELSE IF encoding = S_base64
                    THEN read_vcard_v21_property_value_base64(
                             start.reader, prop.value, <<>>)
                    ELSE read_vcard_property_value_folded(
                             start.reader, prop.value, version, <<>>)
            IN  IF read.ok
                THEN [kind |-> "prop", err |-> NoError,
                      prop |-> [prop EXCEPT !.value = read.value], reader |-> read.reader]
                ELSE [kind |-> "error",
                      err |-> Error("ValueError",
                                    IF encoding = S_base64
                                    THEN "incomplete base64 property value"
                                    ELSE "incomplete quoted-printable property value"),
                      prop |-> VCardProperty, reader |-> read.reader]

(***************************************************************************)
(* write_vcard                                                             *)
(***************************************************************************)
property_order ==
    <<<<<<"v","e","r","s","i","o","n">>, 0>>,
      <<<<"f","n">>, 1>>,
      <<<<"n">>, 2>>,
      <<<<"s","o","r","t","-","s","t","r","i","n","g">>, 3>>,
      <<<<"n","i","c","k","n","a","m","e">>, 4>>,
      <<<<"a","d","r">>, 5>>,
      <<<<"l","a","b","e","l">>, 6>>,
      <<<<"t","e","l">>, 7>>,
      <<<<"m","a","i","l">>, 8>>,
      <<<<"m","a","i","l","e","r">>, 9>>,
      <<<<"o","r","g">>, 10>>,
      <<<<"c","a","t","e","g","o","r","i","e","s">>, 11>>,
      <<<<"c","l","a","s","s">>, 12>>,
      <<<<"b","d","a","y">>, 13>>,
      <<<<"t","i","t","l","e">>, 14>>,
      <<<<"r","o","l","e">>, 15>>,
      <<<<"n","o","t","e">>, 16>>,
      <<<<"u","i","d">>, 17>>,
      <<<<"u","r","l">>, 18>>,
      <<<<"t","z">>, 19>>,
      <<<<"g","e","o">>, 20>>,
      <<<<"p","h","o","t","o">>, 21>>,
      <<<<"l","o","g","o">>, 22>>,
      <<<<"s","o","u","n","d">>, 23>>,
      <<<<"k","e","y">>, 24>>,
      <<<<"p","r","o","d","i","d">>, 98>>,
      <<<<"r","e","v">>, 99>>>>
S_BEGIN_VCARD ==
    <<"B","E","G","I","N",":","V","C","A","R","D","\n">>
S_END_VCARD ==
    <<"E","N","D",":","V","C","A","R","D","\n">>

\* _property_sort_key with a default rank past the two trailing ranks
property_sort_key_default_last(property_name) ==
    IF \E i \in 1..Len(property_order) : property_order[i][1] = property_name
    THEN property_order[CHOOSE i \in 1..Len(property_order) :
                            property_order[i][1] = property_name][2]
    ELSE 100

\* _property_order.get(property_name, 90)
property_sort_key(property_name) ==
    IF \E i \in 1..Len(property_order) : property_order[i][1] = property_name
    THEN property_order[CHOOSE i \in 1..Len(property_order) :
                            property_order[i][1] = property_name][2]
    ELSE 90

\* sorted(names, key=_property_sort_key): stable, so equal keys keep their order
RECURSIVE sorted_properties(_)
sorted_properties(names) ==
    IF names = <<>> THEN <<>>
    ELSE LET x == names[Len(names)]
             rest == sorted_properties(SubSeq(names, 1, Len(names) - 1))
             before == {i \in 1..Len(rest) :
                           property_sort_key(rest[i]) <= property_sort_key(x)}
         IN  SubSeq(rest, 1, Cardinality(before)) \o <<x>>
                 \o SubSeq(rest, Cardinality(before) + 1, Len(rest))

\* sorted(strings)
RECURSIVE sorted(_)
sorted(strings) ==
    IF strings = <<>> THEN <<>>
    ELSE LET x == strings[Len(strings)]
             rest == sorted(SubSeq(strings, 1, Len(strings) - 1))
             before == {i \in 1..Len(rest) : ~str_less(x, rest[i])}
         IN  SubSeq(rest, 1, Cardinality(before)) \o <<x>>
                 \o SubSeq(rest, Cardinality(before) + 1, Len(rest))

\* write_parameter without the parameter's name
write_parameter_unnamed(parameter_name, parameter_value) ==
    <<";">> \o upper(parameter_value)

\* the text written for one parameter value (core.py lines 314-317)
write_parameter(parameter_name, parameter_value) ==
    <<";">> \o upper(parameter_name) \o <<"=">> \o upper(parameter_value)

RECURSIVE write_parameter_values(_, _)
write_parameter_values(parameter_name, parameter_values) ==
    IF parameter_values = <<>> THEN <<>>
    ELSE write_parameter(parameter_name, Head(parameter_values))
             \o write_parameter_values(parameter_name, Tail(parameter_values))

RECURSIVE write_parameters(_, _)
write_parameters(prop, parameter_names) ==
    IF parameter_names = <<>> THEN <<>>
    ELSE write_parameter_values(
             Head(parameter_names),
             sorted(parameters_get(prop, Head(parameter_names), <<>>)))
             \o write_parameters(prop, Tail(parameter_names))

\* the text written for one property (core.py lines 306-321)
write_property(prop) ==
    upper(prop.name)
        \o write_parameters(prop,
               sorted([i \in 1..Len(prop.parameters) |-> prop.parameters[i].name]))
        \o <<":">> \o prop.value \o <<"\n">>

RECURSIVE write_properties(_)
write_properties(props) ==
    IF props = <<>> THEN <<>>
    ELSE write_property(Head(props)) \o write_properties(Tail(props))

RECURSIVE write_groups(_, _)
write_groups(vcard, prop_names) ==
    IF prop_names = <<>> THEN <<>>
    ELSE write_properties(properties_get(vcard, Head(prop_names), <<>>))
             \o write_groups(vcard, Tail(prop_names))

\* everything write_vcard writes to the stream
write_vcard(vcard) ==
    S_BEGIN_VCARD
        \o write_groups(vcard,
               sorted_properties(
                   [i \in 1..Len(vcard.properties) |-> vcard.properties[i].name]))
        \o S_END_VCARD

\* the physical lines of a text stream holding `text`: each ends after its
\* "\n"; a last unterminated piece is a line too
RECURSIVE text_lines(_)
text_lines(text) ==
    IF text = <<>> THEN <<>>
    ELSE IF \E i \in 1..Len(text) : text[i] = "\n"
    THEN LET i == CHOOSE i \in 1..Len(text) :
                      text[i] = "\n" /\ \A j \in 1..(i - 1) : text[j] # "\n"
         IN  <<SubSeq(text, 1, i)>> \o text_lines(SubSeq(text, i + 1, Len(text)))
    ELSE <<text>>

(***************************************************************************)
(* The input streams                                                       *)
(***************************************************************************)
L_BEGIN ==
    <<"B","E","G","I","N",":","V","C","A","R","D","\n">>
L_END ==
    <<"E","N","D",":","V","C","A","R","D","\n">>
L_VERSION30 ==
    <<"V","E","R","S","I","O","N",":","3",".","0","\n">>
L_VERSION21 ==
    <<"V","E","R","S","I","O","N",":","2",".","1","\n">>
L_NOTE ==
    <<"N","O","T","E",":","l","o","n","g"," ","l","i","n","e","\n">>
L_CONT ==
    <<" ","c","o","n","t","i","n","u","e","d"," ","t","e","x","t","\n">>
L_CONT2 ==
    <<" "," ","x","\n">>
L_AGENT ==
    <<"A","G","E","N","T",":","\n">>
L_BLANK ==
    <<"\n">>
L_TEL ==
    <<"T","E","L",";","H","O","M","E",";","t","y","p","e","=","W","o","r","k",":","1","\n">>
L_QP ==
    <<"N",";","E","N","C","O","D","I","N","G","=","Q","U","O","T","E","D","-","P","R","I","N","T","A","B","L","E",":","a","=","\n">>
L_B64 ==
    <<"P",";","E","N","C","O","D","I","N","G","=","B","A","S","E","6","4",":","Q","Q","\n">>
L_NONAME ==
    <<":","x","\n">>
L_PRODID ==
    <<"P","R","O","D","I","D",":","x","\n">>
L_REV ==
    <<"R","E","V",":","1","\n">>
L_TEL2 ==
    <<"T","E","L",";","x","=","b",";","T","Y","P","E","=","w","o","r","k",";","a","=","c",";","t","y","p","e","=","c","e","l","l",":","2","\n">>

LinePool ==
    {L_BEGIN, L_END, L_VERSION30, L_VERSION21, L_NOTE, L_CONT, L_CONT2, L_AGENT,
     L_BLANK, L_TEL, L_QP, L_B64, L_NONAME, L_PRODID, L_REV, L_TEL2}

\* the most physical lines a stream holds after its first, BEGIN:VCARD
MaxBody == 4

Streams ==
    {<<L_BEGIN>> \o body : body \in UNION {[1..n -> LinePool] : n \in 0..MaxBody}}

(***************************************************************************)
(* read_vcard, step by step.  stack holds the VCard of every read_vcard    *)
(* call that is past its begin property, the innermost last; a call        *)
(* nested at line 249 runs on top of its caller's.                         *)
(***************************************************************************)
Pending == [kind |-> "pending", err |-> NoError, vcard |-> VCard]
Returned(vcard) == [kind |-> "vcard", err |-> NoError, vcard |-> vcard]
ReturnedNone == [kind |-> "none", err |-> NoError, vcard |-> VCard]
Raised(err) == [kind |-> "error", err |-> err, vcard |-> VCard]

\* the lines of the stream the program has taken for good: a peeked line is
\* read from the stream but still to be returned by readline
consumed(r) ==
    IF r.next_line # <<>> /\ r.next_line[1] # <<>> THEN r.pos - 1 ELSE r.pos

NoCall ==
    [op |-> "none", version |-> str_value(<<>>), from |-> 0, upto |-> 0,
     kind |-> "none", err |-> NoError, prop |-> VCardProperty,
     before |-> VCard, after |-> VCard, nested |-> FALSE]

Call(op, version, got, before, after, nested) ==
    [op |-> op, version |-> version, from |-> consumed(reader),
     upto |-> consumed(got.reader), kind |-> got.kind, err |-> got.err,
     prop |-> got.prop, before |-> before, after |-> after, nested |-> nested]

\* vcard.properties.get('version', [_fallback_version])[0]: the first version
\* property itself when there is one, the str '2.1' otherwise
version_of(vcard) ==
    LET found == properties_get(vcard, S_version, <<>>)
    IN  IF found = <<>> THEN str_value(fallback_version) ELSE object_value(found[1])

\* What the phase does once its outermost read_vcard call has ended.
AfterRead(res) == IF phase = 1 /\ res.kind = "vcard" THEN "write" ELSE "done"

\* core.py lines 223-233
ReadVCardBegin ==
    /\ pc = "begin"
    /\ \E got \in {read_vcard_property(reader, str_value(fallback_version))} :
       LET version == str_value(fallback_version)
           outermost == stack = <<>>
           res == IF got.kind = "none" THEN ReturnedNone
                  ELSE IF got.kind = "error" THEN Raised(got.err)
                  ELSE IF got.prop.name # S_begin \/ got.prop.value # S_vcard
                  THEN Raised(Error("ValueError", "Expected a begin property"))
                  ELSE Pending
       IN  /\ reader' = got.reader
           /\ last' = Call("begin", version, got, VCard, VCard, FALSE)
           /\ IF res.kind = "pending"
              THEN /\ stack' = Append(stack, VCard)
                   /\ pc' = "loop"
                   /\ UNCHANGED result
              ELSE IF res.kind = "none" /\ ~outermost
              THEN \* the nested call returns None and the caller's loop goes on
                   /\ pc' = "loop"
                   /\ UNCHANGED <<stack, result>>
              ELSE /\ result' = res
                   /\ pc' = AfterRead(res)
                   /\ UNCHANGED stack
    /\ UNCHANGED <<phase, first, output, tr, tx, records, returned>>

\* what line 247 and 248 decide for a property: "nested", "dropped" or "stored"
agent_rule(property_name, version) ==
    IF property_name = S_agent
    THEN IF equals_str(version, S_2_1) THEN "nested" ELSE "dropped"
    ELSE "stored"

\* core.py lines 236-255: one pass of the while loop
ReadVCardLoop ==
    /\ pc = "loop"
    /\ LET depth == Len(stack)
           vcard == stack[depth]
           version == version_of(vcard)
       IN \E got \in {read_vcard_property(reader, version)} :
       LET
           closing == got.kind = "prop"
                          /\ (got.prop.name = S_end \/ got.prop.value = S_vcard)
           rule == agent_rule(got.prop.name, version)
           after == IF got.kind = "prop" /\ ~closing /\ rule = "stored"
                    THEN add_property(vcard, got.prop) ELSE vcard
           nested == got.kind = "prop" /\ ~closing /\ rule = "nested"
           res == IF got.kind = "error" THEN Raised(got.err)
                  ELSE IF got.kind = "none"
                  THEN \* line 238 reads prop.name of None; line 241 is never reached
                       Raised(Error("AttributeError",
                                    "'NoneType' object has no attribute 'name'"))
                  ELSE IF closing THEN Returned(vcard)
                  ELSE Pending
       IN  /\ reader' = got.reader
           /\ last' = Call("loop", version, got, vcard, after, nested)
           /\ IF res.kind = "error"
              THEN /\ result' = res
                   /\ pc' = AfterRead(res)
                   /\ UNCHANGED stack
              ELSE IF res.kind = "vcard"
              THEN /\ stack' = SubSeq(stack, 1, depth - 1)
                   /\ IF depth = 1
                      THEN result' = res /\ pc' = AfterRead(res)
                      ELSE \* line 249 discards what the nested call returns
                           UNCHANGED result /\ pc' = "loop"
              ELSE /\ stack' = [stack EXCEPT ![depth] = after]
                   /\ pc' = IF nested THEN "begin" ELSE "loop"
                   /\ UNCHANGED result
    /\ UNCHANGED <<phase, first, output, tr, tx, records, returned>>

\* write_vcard on the record phase 1 returned, then a TextReader over what
\* was written
WriteVCard ==
    /\ pc = "write"
    /\ output' = write_vcard(result.vcard)
    /\ first' = result
    /\ phase' = 2
    /\ reader' = TextReader(text_lines(output'))
    /\ stack' = <<>>
    /\ pc' = "begin"
    /\ result' = Pending
    /\ last' = NoCall
    /\ UNCHANGED <<tr, tx, records, returned>>

NoCalls == [calls |-> <<>>]
NoText == [op |-> "none"]
NoRecords == [pieces |-> <<>>, trailing |-> FALSE]

Init ==
    /\ reader \in {TextReader(s) : s \in Streams}
    /\ stack = <<>>
    /\ pc = "begin"
    /\ phase = 1
    /\ result = Pending
    /\ first = Pending
    /\ output = <<>>
    /\ last = NoCall
    /\ tr = NoCalls
    /\ tx = NoText
    /\ records = NoRecords
    /\ returned = <<>>

Next ==
    \/ ReadVCardBegin
    \/ ReadVCardLoop
    \/ WriteVCard

Spec == Init /\ [][Next]_vars

(***************************************************************************)
(* Properties of read_vcard and write_vcard, checked under Spec            *)
(***************************************************************************)
V_claimed ==
    <<"l","o","n","g"," ","l","i","n","e"," ","c","o","n","t","i","n","u","e","d"," ","t","e","x","t">>
V_actual ==
    <<"l","o","n","g"," ","l","i","n","e","c","o","n","t","i","n","u","e","d"," ","t","e","x","t">>
S_note ==
    <<"n","o","t","e">>

\* the physical lines the last read_vcard_property call consumed
LastLines == SubSeq(reader.stream, last.from + 1, last.upto)

is_blank(line) == \A i \in 1..Len(line) : line[i] \in {"\r", "\n"}

\* a line without its terminator
Unterminated(line) ==
    SubSeq(line, 1, Len(line) - Cardinality({j \in 1..Len(line) :
                        \A k \in j..Len(line) : line[k] \in {"\r", "\n"}}))

\* the lines without the blank ones skipped in front
RECURSIVE DropLeadingBlank(_)
DropLeadingBlank(lines) ==
    IF lines # <<>> /\ is_blank(Head(lines)) THEN DropLeadingBlank(Tail(lines)) ELSE lines

\* the same, terminators removed
ContentLines(lines) ==
    LET kept == DropLeadingBlank(lines)
    IN  [i \in 1..Len(kept) |-> Unterminated(kept[i])]

\* the version properties a record holds
DeclaredVersions(vcard) == properties_get(vcard, S_version, <<>>)

\* the legacy revision is current: none declared, or '2.1' declared
LegacyRevision(vcard) ==
    \/ DeclaredVersions(vcard) = <<>>
    \/ DeclaredVersions(vcard)[1].value = S_2_1

\* a continuation line without all of its leading whitespace
StripAllLeading(s) ==
    SubSeq(s, 1 + Cardinality({i \in 1..Len(s) :
                                  \A j \in 1..i : s[j] \in {" ", "\t"}}), Len(s))
\* a continuation line without its first character
DropOne(s) == SubSeq(s, 2, Len(s))

RECURSIVE Unfolded(_, _)
Unfolded(continuations, legacy) ==
    IF continuations = <<>> THEN <<>>
    ELSE (IF legacy THEN StripAllLeading(Head(continuations))
                    ELSE DropOne(Head(continuations)))
             \o Unfolded(Tail(continuations), legacy)

\* the last call was made by read_vcard's loop and returned a property read
\* by the plain folding grammar
FoldedRead ==
    /\ last.op = "loop"
    /\ last.kind = "prop"
    /\ encoding_of(last.prop) \notin {S_quoted_printable, S_base64}

\* C2: every property read after the opening bracket is unfolded by the
\* record's revision at that moment: with no version property read yet, or
\* with '2.1' declared, each continuation line loses all its leading
\* whitespace; with a later revision declared it loses exactly one
\* character.
C2_UnfoldedByRevision ==
    FoldedRead =>
        LET lines == ContentLines(LastLines)
        IN  last.prop.value =
                parse_vcard_property(lines[1]).prop.value
                    \o Unfolded(Tail(lines), LegacyRevision(last.before))

\* C3: when the stream ends inside an opened record, before a closing
\* property is read, read_vcard raises ValueError('incomplete vcard') and
\* nothing else.
C3_IncompleteRecord ==
    (pc = "done" /\ last.op = "loop" /\ last.kind = "none") =>
        result = Raised(Error("ValueError", "incomplete vcard"))

\* a base64 property with a non-empty first fragment, continuation lines
\* that each start with a tab or a space, and then a blank line
Base64Block(lines) ==
    /\ Len(lines) >= 2
    /\ LET head == parse_vcard_property(Unterminated(lines[1]))
       IN  /\ head.ok
           /\ encoding_of(head.prop) = S_base64
           /\ head.prop.value # <<>>
    /\ \A i \in 2..(Len(lines) - 1) : lines[i][1] \in {"\t", " "}
    /\ is_blank(lines[Len(lines)])

\* a fragment without the whitespace at its ends
Trim(s) ==
    LET leading == Cardinality({i \in 1..Len(s) : \A j \in 1..i : s[j] \in Whitespace})
        trailing == Cardinality({i \in 1..Len(s) : \A j \in i..Len(s) : s[j] \in Whitespace})
    IN  IF leading = Len(s) THEN <<>> ELSE SubSeq(s, leading + 1, Len(s) - trailing)

RECURSIVE Trimmed(_)
Trimmed(fragments) ==
    IF fragments = <<>> THEN <<>>
    ELSE Trim(Head(fragments)) \o Trimmed(Tail(fragments))

\* C4: a base64 property with a non-empty first fragment, zero or more
\* continuation lines and then a blank line is read without error, and its
\* value is the trimmed fragments put together in order.
C4_Base64EndsAtBlankLine ==
    (last.op # "none" /\ Base64Block(DropLeadingBlank(LastLines))) =>
        LET lines == ContentLines(LastLines)
        IN  /\ last.kind = "prop"
            /\ last.prop.value =
                   Trimmed(<<parse_vcard_property(lines[1]).prop.value>>
                               \o SubSeq(lines, 2, Len(lines) - 1))

\* the last call was made by read_vcard's loop and returned a property that
\* does not close the record
OpenRead ==
    /\ last.op = "loop"
    /\ last.kind = "prop"
    /\ ~(last.prop.name = S_end \/ last.prop.value = S_vcard)

\* C5: every property read between the brackets is appended to the record
\* under its name, except an agent property read under the legacy revision,
\* which makes read_vcard read and discard one nested record; an agent
\* property read under a later revision is appended.
C5_AppendedUnlessLegacyAgent ==
    OpenRead =>
        IF last.prop.name = S_agent /\ LegacyRevision(last.before)
        THEN last.nested /\ last.after = last.before
        ELSE ~last.nested /\ last.after = add_property(last.before, last.prop)

\* C6: every property the reader returns, and every property a record
\* holds, has a non-empty name.
C6_NameNeverEmpty ==
    /\ last.kind = "prop" => last.prop.name # <<>>
    /\ \A d \in 1..Len(stack) : \A g \in 1..Len(stack[d].properties) :
           stack[d].properties[g].name # <<>>

\* the lines 'NOTE:long line' and ' continued text' were read as one
\* property with no VERSION property read before
C7_Scenario ==
    /\ last.op = "loop"
    /\ LastLines = <<L_NOTE, L_CONT>>
    /\ DeclaredVersions(last.before) = <<>>

\* C7 as stated: the value read is 'long line continued text'.
C7_ValueKeepsTheSpace ==
    C7_Scenario =>
        /\ last.kind = "prop"
        /\ last.prop.name = S_note
        /\ last.prop.value = V_claimed

\* C7, amended: under the legacy revision the lines 'NOTE:long line' and
\* ' continued text' give one property named note whose value is
\* 'long linecontinued text': the continuation loses its leading space.
C7_ValueLosesTheSpace ==
    C7_Scenario =>
        /\ last.kind = "prop"
        /\ last.prop.name = S_note
        /\ last.prop.parameters = <<>>
        /\ last.prop.value = V_actual

C7_Witness ==
    C7_Scenario /\ last.kind = "prop" /\ last.prop.value = V_actual

\* the content of a property: its name, its parameters as a mapping from
\* name to set of values, and its value
Content(prop) ==
    [name |-> prop.name,
     parameters |-> {<<prop.parameters[i].name,
                       {prop.parameters[i].values[j] :
                            j \in 1..Len(prop.parameters[i].values)}>> :
                         i \in 1..Len(prop.parameters)},
     value |-> prop.value]

Names(vcard) == {vcard.properties[i].name : i \in 1..Len(vcard.properties)}

SameContent(a, b) ==
    /\ Names(a) = Names(b)
    /\ \A name \in Names(a) :
           LET pa == properties_get(a, name, <<>>)
               pb == properties_get(b, name, <<>>)
           IN  /\ Len(pa) = Len(pb)
               /\ \A i \in 1..Len(pa) : Content(pa[i]) = Content(pb[i])

Written == first.vcard.properties

S_prodid == <<"p","r","o","d","i","d">>
S_rev == <<"r","e","v">>

Listed(name) == \E i \in 1..Len(property_order) : property_order[i][1] = name
TableRank(name) ==
    property_order[CHOOSE i \in 1..Len(property_order) :
                       property_order[i][1] = name][2]

\* name a may come before name b in the output
MayPrecede(a, b) ==
    /\ b # S_version
    /\ a # S_rev
    /\ a = S_prodid => b = S_rev
    /\ ~Listed(a) => (~Listed(b) \/ b \in {S_prodid, S_rev})
    /\ (Listed(a) /\ Listed(b)) => TableRank(a) <= TableRank(b)

Orders(n) == {p \in [1..n -> 1..n] : \A i, j \in 1..n : i # j => p[i] # p[j]}

\* the properties of the groups taken in the order p, each group in its
\* stored order
RECURSIVE InOrder(_, _, _)
InOrder(groups, p, k) ==
    IF k > Len(groups) THEN <<>>
    ELSE groups[p[k]].props \o InOrder(groups, p, k + 1)

\* the (name, value) pairs of a property's parameters
ParameterPairs(prop) ==
    UNION {{<<prop.parameters[i].name, prop.parameters[i].values[j]>> :
                j \in 1..Len(prop.parameters[i].values)} :
               i \in 1..Len(prop.parameters)}

PairBefore(a, b) ==
    \/ str_less(a[1], b[1])
    \/ a[1] = b[1] /\ str_less(a[2], b[2])

\* the pairs, each once, by name and then by value
SortedPairs(prop) ==
    LET pairs == ParameterPairs(prop)
        n == Cardinality(pairs)
    IN  {q \in [1..n -> pairs] :
             \A i, j \in 1..n : i < j => PairBefore(q[i], q[j])}

RECURSIVE Uppercased(_)
Uppercased(q) ==
    IF q = <<>> THEN <<>>
    ELSE <<";">> \o upper(q[1][1]) \o <<"=">> \o upper(q[1][2])
             \o Uppercased(Tail(q))

IsLineOf(line, prop) ==
    \E q \in SortedPairs(prop) :
        line = upper(prop.name) \o Uppercased(q) \o <<":">> \o prop.value \o <<"\n">>

\* C11: between BEGIN:VCARD and END:VCARD write_vcard writes one line per
\* stored property: the names in non-decreasing rank (version first, listed
\* names by the table, unlisted names after them and before prodid, then
\* rev), under one name the properties in stored order, and on each line
\* the parameters by name and then by value, in upper case.
C11_OutputOrder ==
    phase = 2 =>
        LET lines == text_lines(output)
            n == Len(lines)
        IN  /\ n >= 2
            /\ lines[1] = S_BEGIN_VCARD
            /\ lines[n] = S_END_VCARD
            /\ \E p \in Orders(Len(Written)) :
                   LET props == InOrder(Written, p, 1)
                   IN  /\ \A i, j \in 1..Len(Written) :
                              i < j => MayPrecede(Written[p[i]].name, Written[p[j]].name)
                       /\ Len(props) = n - 2
                       /\ \A k \in 1..Len(props) : IsLineOf(lines[k + 1], props[k])

\* a record stored as tel (with three parameter names), rev, then an
\* unlisted name was written with the unlisted name's line before rev's
C11_Witness ==
    /\ phase = 2
    /\ Len(Written) = 3
    /\ Written[1].name = <<"t","e","l">>
    /\ Len(Written[1].props[1].parameters) = 3
    /\ Written[2].name = S_rev
    /\ ~Listed(Written[3].name)
    /\ text_lines(output)[3] = L_NONAME
    /\ text_lines(output)[4] = L_REV

(***************************************************************************)
(* TextReader on its own: any interleaving of readline and peekline        *)
(***************************************************************************)
ReaderLines == {L_BLANK, L_AGENT, L_CONT2}

\* the most physical lines of a stream, and the most calls made on it
MaxReaderLines == 3
MaxCalls == 5

ReaderStreams == UNION {[1..n -> ReaderLines] : n \in 0..MaxReaderLines}

InitReader ==
    /\ reader \in {TextReader(s) : s \in ReaderStreams}
    /\ stack = <<>>
    /\ pc = "reader"
    /\ phase = 1
    /\ result = Pending
    /\ first = Pending
    /\ output = <<>>
    /\ last = NoCall
    /\ tr = NoCalls
    /\ tx = NoText
    /\ records = NoRecords
    /\ returned = <<>>

Called(op, got) ==
    [calls |-> Append(tr.calls,
                      [op |-> op, line |-> got.line,
                       before |-> reader.line_number,
                       after |-> got.reader.line_number])]

Readline ==
    /\ pc = "reader"
    /\ Len(tr.calls) < MaxCalls
    /\ \E got \in {readline(reader)} :
           /\ reader' = got.reader
           /\ tr' = Called("readline", got)
    /\ UNCHANGED <<stack, pc, phase, result, first, output, last, tx,
                   records, returned>>

Peekline ==
    /\ pc = "reader"
    /\ Len(tr.calls) < MaxCalls
    /\ \E got \in {peekline(reader)} :
           /\ reader' = got.reader
           /\ tr' = Called("peekline", got)
    /\ UNCHANGED <<stack, pc, phase, result, first, output, last, tx,
                   records, returned>>

NextReader ==
    \/ Readline
    \/ Peekline

SpecReader == InitReader /\ [][NextReader]_vars

\* the calls among the first n that were readline and did not return ''
LinesRead(n) ==
    {i \in 1..n : tr.calls[i].op = "readline" /\ tr.calls[i].line # <<>>}

\* the line of the stream after the first k, '' past its end
StreamLine(k) == IF k < Len(reader.stream) THEN reader.stream[k + 1] ELSE <<>>

\* C8: readline returns the lines of the stream in order, each once, and ''
\* only past the end; peekline returns what the next readline returns and
\* leaves line_number alone; line_number is the number of lines readline
\* has returned, '' not counted.
C8_ReadlinePeekline ==
    /\ reader.line_number = Cardinality(LinesRead(Len(tr.calls)))
    /\ \A i \in 1..Len(tr.calls) :
           LET call == tr.calls[i]
               taken == Cardinality(LinesRead(i - 1))
           IN  /\ call.line = StreamLine(taken)
               /\ call.before = taken
               /\ call.after = Cardinality(LinesRead(i))
               /\ call.op = "peekline" =>
                      /\ call.after = call.before
                      /\ \A j \in (i + 1)..Len(tr.calls) :
                             (tr.calls[j].op = "readline"
                                  /\ \A k \in (i + 1)..(j - 1) :
                                         tr.calls[k].op = "peekline")
                                 => tr.calls[j].line = call.line

\* a line was peeked and then read, and readline ran past the end
C8_Witness ==
    /\ \E i \in 1..(Len(tr.calls) - 1) :
           /\ tr.calls[i].op = "peekline"
           /\ tr.calls[i].line # <<>>
           /\ tr.calls[i + 1].op = "readline"
    /\ \E i \in 1..Len(tr.calls) :
           tr.calls[i].op = "readline" /\ tr.calls[i].line = <<>>
    /\ reader.line_number >= 2

(***************************************************************************)
(* vcard/text.py: escape, unescape, split_structured_value                 *)
(***************************************************************************)
\* re.sub(r'(\r\n|\r)', '\n', string)
RECURSIVE normalize_newlines(_)
normalize_newlines(string) ==
    IF string = <<>> THEN <<>>
    ELSE IF Len(string) >= 2 /\ string[1] = "\r" /\ string[2] = "\n"
    THEN <<"\n">> \o normalize_newlines(SubSeq(string, 3, Len(string)))
    ELSE IF string[1] = "\r"
    THEN <<"\n">> \o normalize_newlines(Tail(string))
    ELSE <<string[1]>> \o normalize_newlines(Tail(string))

\* escape_char that lets a backslash through as it is
escape_char_plain_backslash(char) ==
    IF char = "\n" THEN <<"\\", "n">>
    ELSE IF char = "," THEN <<"\\", ",">>
    ELSE IF char = ";" THEN <<"\\", ";">>
    ELSE <<char>>

\* what escape appends for one character (text.py lines 41-50)
escape_char(char) ==
    IF char = "\n" THEN <<"\\", "n">>
    ELSE IF char = "\\" THEN <<"\\", "\\">>
    ELSE IF char = "," THEN <<"\\", ",">>
    ELSE IF char = ";" THEN <<"\\", ";">>
    ELSE <<char>>

RECURSIVE escape_chars(_)
escape_chars(string) ==
    IF string = <<>> THEN <<>>
    ELSE escape_char(Head(string)) \o escape_chars(Tail(string))

escape(string) == escape_chars(normalize_newlines(string))

\* string[index] for a 0-based index: an index outside the string raises
\* IndexError, which is ok = FALSE
char_at(string, index) ==
    IF index >= 0 /\ index < Len(string)
    THEN [ok |-> TRUE, char |-> string[index + 1]]
    ELSE [ok |-> FALSE, char |-> ""]

\* the while loop of unescape from `index` on: [ok, chars]
RECURSIVE unescape_from(_, _, _)
unescape_from(string, index, chars) ==
    LET end == Len(string)
    IN  IF ~(index < end) THEN [ok |-> TRUE, chars |-> chars]
        ELSE
        LET char == char_at(string, index)
        IN  IF ~char.ok THEN [ok |-> FALSE, chars |-> chars]
            ELSE IF char.char = "\\" /\ index + 1 < end
            THEN LET next_char == char_at(string, index + 1)
                 IN  IF ~next_char.ok THEN [ok |-> FALSE, chars |-> chars]
                     ELSE IF next_char.char \in {"\\", ",", ";"}
                     THEN unescape_from(string, index + 2, Append(chars, next_char.char))
                     ELSE IF next_char.char \in {"n", "N"}
                     THEN unescape_from(string, index + 2, Append(chars, "\n"))
                     ELSE unescape_from(string, index + 2,
                                        chars \o <<char.char, next_char.char>>)
            ELSE unescape_from(string, index + 1, Append(chars, char.char))

unescape(string) == unescape_from(string, 0, <<>>)

\* Where the match of _build_separation_pattern(separator) that starts at the
\* 0-based offset `start` ends.  The pattern is a greedy repetition of
\*   [^\\c]  |  \\\\  |  \\c  |  \\
\* tried in that order at every offset; the repetition can always stop, so
\* the first alternative that fits is the one taken.
RECURSIVE match_end(_, _, _)
match_end(string, start, separator) ==
    IF start >= Len(string) THEN start
    ELSE LET char == string[start + 1]
             next_is(c) == start + 1 < Len(string) /\ string[start + 2] = c
         IN  IF char # "\\" /\ char # separator
             THEN match_end(string, start + 1, separator)
             ELSE IF char = "\\" /\ next_is("\\")
             THEN match_end(string, start + 2, separator)
             ELSE IF char = "\\" /\ next_is(separator)
             THEN match_end(string, start + 2, separator)
             ELSE IF char = "\\"
             THEN match_end(string, start + 1, separator)
             ELSE start

\* separation_pattern.finditer(string) from offset pos on: the matches as
\* [start, end] in order.  After an empty match the next one may not be
\* empty at the same offset (must_advance), so the search moves on by one;
\* after a non-empty match an empty one may follow right at its end.
RECURSIVE finditer(_, _, _, _)
finditer(string, separator, pos, must_advance) ==
    IF pos > Len(string) THEN <<>>
    ELSE LET end == match_end(string, pos, separator)
         IN  IF end = pos /\ must_advance
             THEN IF pos < Len(string)
                  THEN finditer(string, separator, pos + 1, FALSE)
                  ELSE <<>>
             ELSE <<[start |-> pos, end |-> end]>>
                      \o finditer(string, separator, end, end = pos)

\* split_loop that appends '' for every empty match
RECURSIVE split_loop_every_empty(_, _, _, _)
split_loop_every_empty(string, matches, parts, prev_not_empty) ==
    IF matches = <<>> THEN parts
    ELSE LET match == Head(matches)
         IN  IF match.start = Len(string) /\ parts = <<>> THEN parts
             ELSE IF match.start = match.end
             THEN split_loop_every_empty(string, Tail(matches), Append(parts, <<>>), FALSE)
             ELSE split_loop_every_empty(string, Tail(matches),
                      Append(parts, SubSeq(string, match.start + 1, match.end)), TRUE)

\* the for loop of _split_structured_value (text.py lines 16-29)
RECURSIVE split_loop(_, _, _, _)
split_loop(string, matches, parts, prev_not_empty) ==
    IF matches = <<>> THEN parts
    ELSE LET match == Head(matches)
         IN  IF match.start = Len(string) /\ parts = <<>> THEN parts
             ELSE IF match.start = match.end
             THEN split_loop(string, Tail(matches),
                             IF ~prev_not_empty THEN Append(parts, <<>>) ELSE parts,
                             FALSE)
             ELSE split_loop(string, Tail(matches),
                             Append(parts, SubSeq(string, match.start + 1, match.end)),
                             TRUE)

split_structured_value(string, separator) ==
    split_loop(string, finditer(string, separator, 0, FALSE), <<>>, FALSE)

\* string[start:index] for 0 <= start and 0 <= index
slice(string, start, index) ==
    SubSeq(string, start + 1, IF index < Len(string) THEN index ELSE Len(string))

\* newline.join(parts)
RECURSIVE newline_join(_, _)
newline_join(newline, parts) ==
    IF parts = <<>> THEN <<>>
    ELSE IF Len(parts) = 1 THEN parts[1]
    ELSE parts[1] \o newline \o newline_join(newline, Tail(parts))

\* the while loop of fold (text.py lines 100-104)
RECURSIVE fold_loop(_, _, _, _, _)
fold_loop(string, width, start, index, parts) ==
    IF index < Len(string)
    THEN fold_loop(string, width, index, index + (width - 1),
                   Append(parts, <<" ">> \o slice(string, start, index)))
    ELSE parts

\* fold(string, width=width, initial_newline=initial_newline, newline=newline)
fold(string, width, initial_newline, newline) ==
    LET index == IF initial_newline THEN width - 1 ELSE width
        part == IF initial_newline
                THEN newline \o <<" ">> \o slice(string, 0, index)
                ELSE slice(string, 0, index)
    IN  newline_join(newline,
                     fold_loop(string, width, index, index + (width - 1), <<part>>))

(***************************************************************************)
(* The text functions applied to every short string                        *)
(***************************************************************************)
TextChars == {"\\", ",", ";", "n", "N", "\r", "\n", "a"}
Separators == {";", ","}

\* the longest string tried
MaxLen == 4

Strings == UNION {[1..n -> TextChars] : n \in 0..MaxLen}

\* the widest fold tried; fold's narrowest sensible width is 2
MaxWidth == 4
Widths == 2..MaxWidth

Text(op, string, separator, ok, text, parts) ==
    [op |-> op, string |-> string, separator |-> separator, ok |-> ok,
     text |-> text, parts |-> parts, width |-> 0]

InitText ==
    /\ tx \in {Text("input", s, "", TRUE, <<>>, <<>>) : s \in Strings}
    /\ reader = TextReader(<<>>)
    /\ stack = <<>>
    /\ pc = "text"
    /\ phase = 1
    /\ result = Pending
    /\ first = Pending
    /\ output = <<>>
    /\ last = NoCall
    /\ tr = NoCalls
    /\ records = NoRecords
    /\ returned = <<>>

\* escape(string)
Escape ==
    /\ tx.op = "input"
    /\ tx' = [tx EXCEPT !.op = "escape", !.text = escape(tx.string)]
    /\ UNCHANGED <<reader, stack, pc, phase, result, first, output, last, tr,
                   records, returned>>

\* unescape(escape(string))
UnescapeEscaped ==
    /\ tx.op = "escape"
    /\ \E got \in {unescape(tx.text)} :
           tx' = [tx EXCEPT !.op = "unescape(escape)", !.ok = got.ok, !.text = got.chars]
    /\ UNCHANGED <<reader, stack, pc, phase, result, first, output, last, tr,
                   records, returned>>

\* unescape(string)
Unescape ==
    /\ tx.op = "input"
    /\ \E got \in {unescape(tx.string)} :
           tx' = [tx EXCEPT !.op = "unescape", !.ok = got.ok, !.text = got.chars]
    /\ UNCHANGED <<reader, stack, pc, phase, result, first, output, last, tr,
                   records, returned>>

\* split_structured_value(string, separator)
SplitStructuredValue ==
    /\ tx.op = "input"
    /\ \E separator \in Separators :
           tx' = [tx EXCEPT !.op = "split", !.separator = separator,
                            !.parts = split_structured_value(tx.string, separator)]
    /\ UNCHANGED <<reader, stack, pc, phase, result, first, output, last, tr,
                   records, returned>>

\* fold(string, width=width)
Fold ==
    /\ tx.op = "input"
    /\ \E width \in Widths :
           tx' = [tx EXCEPT !.op = "fold", !.width = width,
                            !.text = fold(tx.string, width, TRUE, <<"\n">>)]
    /\ UNCHANGED <<reader, stack, pc, phase, result, first, output, last, tr,
                   records, returned>>

NextText ==
    \/ Escape
    \/ UnescapeEscaped
    \/ Unescape
    \/ SplitStructuredValue
    \/ Fold

SpecText == InitText /\ [][NextText]_vars

\* x with every CRLF and every lone CR replaced by LF: the LF of a CRLF
\* goes, and every CR becomes LF
Normalized(x) ==
    LET kept == {i \in 1..Len(x) : ~(x[i] = "\n" /\ i > 1 /\ x[i - 1] = "\r")}
        nth(k) == CHOOSE i \in kept : Cardinality({j \in kept : j <= i}) = k
    IN  [k \in 1..Cardinality(kept) |-> IF x[nth(k)] = "\r" THEN "\n" ELSE x[nth(k)]]

\* C9: unescape(escape(x)) is x with every CRLF and lone CR replaced by LF,
\* for every x over backslash, comma, semicolon, n, N, CR, LF and a plain
\* character; and unescape raises on no input.
C9_EscapeRoundTrip ==
    /\ tx.op = "unescape(escape)" => tx.ok /\ tx.text = Normalized(tx.string)
    /\ tx.op = "unescape" => tx.ok

\* a string with a backslash before n and a CRLF made the round trip
C9_Witness ==
    /\ tx.op = "unescape(escape)"
    /\ \E i \in 1..(Len(tx.string) - 1) : tx.string[i] = "\\" /\ tx.string[i + 1] = "n"
    /\ \E i \in 1..(Len(tx.string) - 1) : tx.string[i] = "\r" /\ tx.string[i + 1] = "\n"
    /\ tx.text = Normalized(tx.string)

\* the separator at position i of s is escaped: the backslashes right before
\* it pair off two by two and the odd one left pairs with the separator
EscapedAt(s, i) ==
    LET run == Cardinality({j \in 1..(i - 1) : \A k \in j..(i - 1) : s[k] = "\\"})
    IN  run % 2 = 1

UnescapedSeparators(s, c) ==
    {i \in 1..Len(s) : s[i] = c /\ ~EscapedAt(s, i)}

RECURSIVE JoinWith(_, _)
JoinWith(parts, c) ==
    IF parts = <<>> THEN <<>>
    ELSE IF Len(parts) = 1 THEN parts[1]
    ELSE parts[1] \o <<c>> \o JoinWith(Tail(parts), c)

\* C10: split_structured_value(s, c) is empty for the empty s; for any
\* other s it has one component more than s has unescaped c, the
\* components joined with c give s back, and no component holds an
\* unescaped c: backslash-backslash and backslash-c are never split and
\* empty components are kept.
C10_SplitStructuredValue ==
    tx.op = "split" =>
        IF tx.string = <<>> THEN tx.parts = <<>>
        ELSE /\ Len(tx.parts) = Cardinality(UnescapedSeparators(tx.string, tx.separator)) + 1
             /\ JoinWith(tx.parts, tx.separator) = tx.string
             /\ \A p \in 1..Len(tx.parts) :
                    UnescapedSeparators(tx.parts[p], tx.separator) = {}

\* a string with an empty component and an escaped separator was split
C10_Witness ==
    /\ tx.op = "split"
    /\ Len(tx.parts) >= 2
    /\ \E p \in 1..Len(tx.parts) : tx.parts[p] = <<>>
    /\ \E p \in 1..Len(tx.parts) :
           \E i \in 1..Len(tx.parts[p]) : tx.parts[p][i] = tx.separator

\* the pieces of s between the cut positions, in order
RECURSIVE ChunksFrom(_, _, _)
ChunksFrom(s, cuts, start) ==
    IF start >= Len(s) THEN <<>>
    ELSE LET later == {c \in cuts : c > start} \cup {Len(s)}
             next == CHOOSE c \in later : \A d \in later : c <= d
         IN  <<SubSeq(s, start + 1, next)>> \o ChunksFrom(s, cuts, next)

\* every way to cut s into consecutive chunks of 1 to width - 1 characters;
\* the empty string is one empty chunk
Chunkings(s, width) ==
    IF s = <<>> THEN {<<(<<>>)>>}
    ELSE {chunks \in {ChunksFrom(s, cuts, 0) : cuts \in SUBSET (1..(Len(s) - 1))} :
              \A k \in 1..Len(chunks) : Len(chunks[k]) <= width - 1}

\* one physical line per chunk, each led in by a newline and one space
RECURSIVE LedIn(_)
LedIn(chunks) ==
    IF chunks = <<>> THEN <<>>
    ELSE <<"\n", " ">> \o chunks[1] \o LedIn(Tail(chunks))

\* C12: fold(s, width) is s cut into consecutive chunks, every chunk written
\* as a newline, one space and the chunk, so that every physical line is at
\* most width characters with its space and the chunks in order give back s.
C12_FoldKeepsContent ==
    tx.op = "fold" =>
        \E chunks \in Chunkings(tx.string, tx.width) : tx.text = LedIn(chunks)

(***************************************************************************)
(* read_vcard called again and again on one TextReader, as                 *)
(* convert_vcard_stream does, over streams made of whole records           *)
(***************************************************************************)
R_EMPTY == <<L_BEGIN, L_END>>
R_NOTE == <<L_BEGIN, L_NOTE, L_CONT, L_END>>
R_TEL == <<L_BEGIN, L_VERSION30, L_TEL, L_END>>
R_B64 == <<L_BEGIN, L_B64, L_BLANK, L_END>>
R_AGENT == <<L_BEGIN, L_AGENT, L_BEGIN, L_END, L_END>>
R_AGENT21 == <<L_BEGIN, L_VERSION21, L_AGENT, L_BEGIN, L_END, L_END>>

RecordPool == {R_EMPTY, R_NOTE, R_TEL, R_B64, R_AGENT, R_AGENT21}

\* the most records of a stream
MaxRecords == 3

\* a record of the stream, with or without a blank line before it
Pieces == {[lines |-> r, blank |-> b] : r \in RecordPool, b \in BOOLEAN}

RecordStreams ==
    {[pieces |-> ps, trailing |-> t] :
         ps \in UNION {[1..n -> Pieces] : n \in 0..MaxRecords}, t \in BOOLEAN}

RECURSIVE piece_lines(_)
piece_lines(pieces) ==
    IF pieces = <<>> THEN <<>>
    ELSE (IF pieces[1].blank THEN <<L_BLANK>> ELSE <<>>)
             \o pieces[1].lines \o piece_lines(Tail(pieces))

\* the physical lines of the stream
stream_of(rs) ==
    piece_lines(rs.pieces) \o (IF rs.trailing THEN <<L_BLANK>> ELSE <<>>)

InitStream ==
    /\ records \in RecordStreams
    /\ reader = TextReader(stream_of(records))
    /\ stack = <<>>
    /\ pc = "begin"
    /\ phase = 0
    /\ result = Pending
    /\ first = Pending
    /\ output = <<>>
    /\ last = NoCall
    /\ tr = NoCalls
    /\ tx = NoText
    /\ returned = <<>>

\* the loop of convert_vcard_stream goes round: read_vcard returned a record,
\* so it is called again on the same reader
NextVCard ==
    /\ phase = 0
    /\ pc = "done"
    /\ result.kind = "vcard"
    /\ returned' = Append(returned, result)
    /\ result' = Pending
    /\ pc' = "begin"
    /\ last' = NoCall
    /\ UNCHANGED <<reader, stack, phase, first, output, tr, tx, records>>

NextStream ==
    \/ ReadVCardBegin
    \/ ReadVCardLoop
    \/ NextVCard

SpecStream == InitStream /\ [][NextStream]_vars

\* the number of the physical line that opens, and that closes, record k
RECURSIVE StartLine(_)
StartLine(k) ==
    (IF k = 1 THEN 0
     ELSE StartLine(k - 1) + Len(records.pieces[k - 1].lines) - 1)
        + (IF records.pieces[k].blank THEN 1 ELSE 0) + 1
EndLine(k) == StartLine(k) + Len(records.pieces[k].lines) - 1

\* the read_vcard call under way is call number Current
Current == Len(returned) + 1

\* C13: on a stream of n whole records, with or without blank lines between
\* them, call k of read_vcard returns a record and has then consumed the
\* lines up to the closing line of record k and no further; it starts at
\* the line after the previous record's closing line, so the line peeked
\* there is its first; and call n + 1 returns no record, raises nothing and
\* leaves every line consumed.
C13_SuccessiveReads ==
    phase = 0 =>
        LET n == Len(records.pieces)
        IN  /\ result.kind # "error"
            /\ (pc = "done" /\ result.kind = "vcard") =>
                   /\ Current <= n
                   /\ consumed(reader) = EndLine(Current)
            /\ (pc = "done" /\ result.kind = "none") =>
                   /\ Current = n + 1
                   /\ consumed(reader) = Len(reader.stream)
            /\ (pc = "loop" /\ Len(stack) = 1 /\ last.op = "begin") =>
                   /\ Current <= n
                   /\ last.from = (IF Current = 1 THEN 0 ELSE EndLine(Current - 1))
                   /\ last.upto = StartLine(Current)

=============================================================================
